---- MODULE Spec2Model ----
(***************************************************************************)
(* Nutrition and lifestyle scoring engine of FitGenix (app/nutrition.py,   *)
(* with the meal-add lookup of app/meals.py).                              *)
(*                                                                         *)
(* Python values are records [t, n, d]: t = "none" is None, t = "str" is a *)
(* non-numeric string, t = "num" is the exact rational n/d (d > 0, lowest  *)
(* terms).  Floats are modelled by exact rationals.  Texts are sequences   *)
(* of one-character strings.                                               *)
(***************************************************************************)
EXTENDS Integers, Sequences, FiniteSets, TLC

VARIABLES
    model_cache,   \* nutrition._model_cache: None or the loaded model object
    model_file,    \* what MODEL_PATH holds on disk (environment)
    load_failed,   \* history: some load_target_model call of this process failed
    call,          \* the last call of a core operation: arguments and outcome
    threads,       \* worker threads inside load_target_model: line reached, local model
    assigned       \* history: the objects assigned to _model_cache, in order

vars == <<model_cache, model_file, load_failed, call, threads, assigned>>

---------------------------------------------------------------------------
(* Bounds *)

MaxTextLen == 2    \* longest meal name / food query drawn
MaxGrid == 5       \* score_range is exercised on the integer grid 0..MaxGrid
NThreads == 2      \* worker threads of the process that may estimate concurrently

---------------------------------------------------------------------------
(* Python values *)

Abs(i) == IF i < 0 THEN -i ELSE i

RECURSIVE Gcd(_, _)
Gcd(a, b) == IF b = 0 THEN a ELSE Gcd(b, a % b)

\* the rational a/b (b # 0) in lowest terms with a positive denominator
Frac(a, b) ==
    LET g == Gcd(Abs(a), Abs(b))
        s == IF b < 0 THEN -1 ELSE 1
    IN [t |-> "num", n |-> (s * a) \div g, d |-> (s * b) \div g]

Num(i) == [t |-> "num", n |-> i, d |-> 1]
PyNone == [t |-> "none", n |-> 0, d |-> 1]
PyStr == [t |-> "str", n |-> 0, d |-> 1]     \* a non-empty, non-numeric string

FAdd(x, y) == Frac(x.n * y.d + y.n * x.d, x.d * y.d)
FSub(x, y) == Frac(x.n * y.d - y.n * x.d, x.d * y.d)
FMul(x, y) == Frac(x.n * y.n, x.d * y.d)
FDiv(x, y) == Frac(x.n * y.d, x.d * y.n)
FLt(x, y) == x.n * y.d < y.n * x.d
FLe(x, y) == x.n * y.d <= y.n * x.d
FMax(x, y) == IF FLt(x, y) THEN y ELSE x     \* max(x, y)
FMin(x, y) == IF FLt(y, x) THEN y ELSE x     \* min(x, y)

\* bool(x): None and 0 are falsy, every other number and non-empty string truthy
Truthy(x) == x.t = "str" \/ (x.t = "num" /\ x.n # 0)

\* x or dflt
Or(x, dflt) == IF Truthy(x) THEN x ELSE dflt

\* float(x) succeeds on numbers only
IsNum(x) == x.t = "num"

---------------------------------------------------------------------------
(* Predictive model: load_target_model, predict_target_from_model *)

ThisYear == 2026      \* date.today().year

\* model objects a pickle at MODEL_PATH can hold; n says what predict does
ModelLinear == [t |-> "model", n |-> 30, d |-> 1]    \* predicts 30 * weight_kg - 600
ModelRaises == [t |-> "model", n |-> -1, d |-> 1]    \* predict raises
ModelObjs == {ModelLinear, ModelRaises}

FileAbsent == [kind |-> "absent", model |-> PyNone]
FileCorrupt == [kind |-> "corrupt", model |-> PyNone]
FileValid(m) == [kind |-> "valid", model |-> m]
ModelFiles == {FileAbsent, FileCorrupt} \cup {FileValid(m) : m \in ModelObjs}

\* faulty variant: the loaded model is returned but never stored in _model_cache
load_target_model_uncached(cache, file) ==
    IF cache # PyNone
    THEN [model |-> cache, cache |-> cache, attempted |-> FALSE, failed |-> FALSE]
    ELSE IF file.kind # "valid"
    THEN [model |-> PyNone, cache |-> cache, attempted |-> TRUE, failed |-> TRUE]
    ELSE [model |-> file.model, cache |-> cache, attempted |-> TRUE, failed |-> FALSE]

\* load_target_model(): the model returned, the cache afterwards, whether the
\* disk was consulted (os.path.exists / open), and whether the load failed
load_target_model(cache, file) ==
    IF cache # PyNone
    THEN [model |-> cache, cache |-> cache, attempted |-> FALSE, failed |-> FALSE]
    ELSE IF file.kind = "absent"
    THEN [model |-> PyNone, cache |-> cache, attempted |-> TRUE, failed |-> TRUE]
    ELSE IF file.kind = "corrupt"
    THEN [model |-> PyNone, cache |-> cache, attempted |-> TRUE, failed |-> TRUE]
    ELSE [model |-> file.model, cache |-> file.model, attempted |-> TRUE, failed |-> FALSE]

\* the feature vector X[0] of predict_target_from_model
Features(user) ==
    [age |-> IF user.birth_date # PyNone THEN Num(ThisYear - user.birth_date.n) ELSE Num(30),
     sex |-> IF user.sex = "male" THEN 1 ELSE 0,
     height_cm |-> Or(user.height_cm, Num(165)),
     weight_kg |-> Or(user.weight_kg, Num(70)),
     activity |-> Or(user.activity_multiplier, Frac(13, 10)),
     goal |-> IF user.goal = "lose" THEN -1 ELSE IF user.goal = "gain" THEN 1 ELSE 0]

\* float(model.predict(X)[0]); PyNone when predict raises
Predict(model, X) ==
    IF model = ModelRaises THEN PyNone
    ELSE FSub(FMul(Num(model.n), X.weight_kg), Num(600))

\* predict_target_from_model(user): pred is the value returned (PyNone for None)
predict_target_from_model(user, cache, file) ==
    LET l == load_target_model(cache, file)
    IN [pred |-> IF l.model = PyNone THEN PyNone ELSE Predict(l.model, Features(user)),
        has_model |-> l.model # PyNone,
        cache |-> l.cache, attempted |-> l.attempted, failed |-> l.failed]

---------------------------------------------------------------------------
(* Target estimation: compute_bmr, compute_daily_targets *)

BmrFloor == 800
TargetMin == 1000
TargetMax == 4500
GoalStep == 300

\* faulty variant: the BMR is not floored at 800
compute_bmr_unfloored(user) ==
    LET weight == Or(user.weight_kg, Num(70))
        height == Or(user.height_cm, Num(170))
        age == IF user.birth_date # PyNone THEN Num(ThisYear - user.birth_date.n) ELSE Num(30)
        base == FSub(FAdd(FMul(Num(10), weight), FMul(Frac(625, 100), height)),
                     FMul(Num(5), age))
    IN IF user.sex = "male" THEN FAdd(base, Num(5)) ELSE FSub(base, Num(161))

compute_bmr(user) ==
    LET weight == Or(user.weight_kg, Num(70))
        height == Or(user.height_cm, Num(170))
        age == IF user.birth_date # PyNone THEN Num(ThisYear - user.birth_date.n) ELSE Num(30)
        base == FSub(FAdd(FMul(Num(10), weight), FMul(Frac(625, 100), height)),
                     FMul(Num(5), age))
        bmr == IF user.sex = "male" THEN FAdd(base, Num(5)) ELSE FSub(base, Num(161))
    IN FMax(Num(BmrFloor), bmr)

_activity_multiplier_from_level(level) ==
    CASE level = "sedentary" -> Frac(12, 10)
      [] level = "light" -> Frac(1375, 1000)
      [] level = "moderate" -> Frac(155, 100)
      [] level = "active" -> Frac(1725, 1000)
      [] level = "very_active" -> Frac(19, 10)
      [] OTHER -> Frac(12, 10)

\* faulty variant: the override is clamped like the formula result
OverrideTargetClamped(user) ==
    FMax(Num(TargetMin), FMin(Num(TargetMax), user.target_calories))

\* lines 76-77: the explicit override, float(user.target_calories)
OverrideTarget(user) == user.target_calories

\* faulty variant: the prediction is clamped like the formula result
ModelTargetClamped(model_pred) == FMax(Num(TargetMin), FMin(Num(TargetMax), model_pred))

\* line 81-82: the prediction is returned as it is
ModelTarget(model_pred) == model_pred

\* line 84: the multiplier the formula uses
Multiplier(user) ==
    Or(user.activity_multiplier, _activity_multiplier_from_level(user.activity_level))

\* lines 83-95: the formula path
FormulaTarget(user) ==
    LET bmr == compute_bmr(user)
        raw == FMul(bmr, Multiplier(user))
        adj == IF user.goal = "lose" THEN FSub(raw, Num(GoalStep))
               ELSE IF user.goal = "gain" THEN FAdd(raw, Num(GoalStep))
               ELSE raw
    IN FMax(Num(TargetMin), FMin(Num(TargetMax), adj))

\* whether line 81 takes the model's prediction
UsesPrediction(model_pred) == Truthy(model_pred)

compute_daily_targets(user, cache, file) ==
    IF Truthy(user.target_calories)
    THEN [target |-> OverrideTarget(user), path |-> "override", pred |-> PyNone,
          has_model |-> FALSE, cache |-> cache, attempted |-> FALSE, failed |-> FALSE]
    ELSE LET p == predict_target_from_model(user, cache, file)
         IN IF UsesPrediction(p.pred)
            THEN [target |-> ModelTarget(p.pred), path |-> "model", pred |-> p.pred,
                  has_model |-> p.has_model, cache |-> p.cache,
                  attempted |-> p.attempted, failed |-> p.failed]
            ELSE [target |-> FormulaTarget(user), path |-> "formula", pred |-> p.pred,
                  has_model |-> p.has_model, cache |-> p.cache,
                  attempted |-> p.attempted, failed |-> p.failed]

\* the user profiles drawn; the activity level is varied where line 84 reads it
Users ==
    {u \in [target_calories : {PyNone, Num(0), Num(9999)},
            birth_date : {PyNone, Num(1936)},
            sex : {"male", "female"},
            height_cm : {PyNone, Num(175)},
            weight_kg : {PyNone, Num(20), Num(200)},
            activity_multiplier : {PyNone, Num(0), Frac(13, 10)},
            activity_level : {"sedentary", "light", "moderate", "active",
                              "very_active", "couch"},
            goal : {"lose", "maintain", "gain"}] :
        Truthy(u.activity_multiplier) => u.activity_level = "sedentary"}

---------------------------------------------------------------------------
(* Texts: str.strip, str.lower *)

Chars == {" ", "a", "A"}
Texts == UNION {[1..k -> Chars] : k \in 0..MaxTextLen}

RECURSIVE LStrip(_)
LStrip(s) == IF s # <<>> /\ Head(s) = " " THEN LStrip(Tail(s)) ELSE s

RECURSIVE RStrip(_)
RStrip(s) ==
    IF s # <<>> /\ s[Len(s)] = " " THEN RStrip(SubSeq(s, 1, Len(s) - 1)) ELSE s

Strip(s) == RStrip(LStrip(s))
Lower(s) == [i \in DOMAIN s |-> IF s[i] = "A" THEN "a" ELSE s[i]]

\* a text argument: None or a string
NoText == [t |-> "none", s |-> <<>>]
TextVal(s) == [t |-> "text", s |-> s]
TextArgs == {NoText} \cup {TextVal(s) : s \in Texts}

---------------------------------------------------------------------------
(* Nutrition lookup: lookup_nutrition_text, lookup_calories_calorieninjas *)

\* items of a CalorieNinjas response; PyNone is a null value
Item(c, p, ch, f) ==
    [calories |-> c, protein_g |-> p, carbohydrates_total_g |-> ch, fat_total_g |-> f]
Egg == Item(Num(78), Num(6), Num(1), Num(5))
Toast == Item(Num(75), Num(3), Num(13), Num(1))
Water == Item(Num(0), Num(0), Num(0), Num(0))
NullItem == Item(PyNone, PyNone, PyNone, PyNone)
ItemLists == {<<>>, <<Water>>, <<Egg, Toast>>, <<Water, NullItem>>}

\* what requests.get does at the primary source
PrimaryResponses ==
    {[kind |-> "error", items |-> <<>>],        \* transport error or timeout
     [kind |-> "http_error", items |-> <<>>],   \* status_code # 200
     [kind |-> "malformed", items |-> <<>>]}    \* 200 whose body is no JSON
    \cup {[kind |-> "ok", items |-> l] : l \in ItemLists}

\* an Edamam response body; PyNone is a missing key
EdamamData(c, p, ch, f) == [calories |-> c, PROCNT |-> p, CHOCDF |-> ch, FAT |-> f]
NoData == EdamamData(PyNone, PyNone, PyNone, PyNone)
SecondaryResponses ==
    {[kind |-> "error", data |-> NoData],
     [kind |-> "http_error", data |-> NoData],
     [kind |-> "ok", data |-> NoData],
     [kind |-> "ok", data |-> EdamamData(Num(95), Frac(1, 2), Num(25), Frac(3, 10))]}

\* instance/indian_nutrition.json; PyNone is a missing key of a record
Rec(e, k, p, c, f) ==
    [energy_kcal |-> e, kcal |-> k, protein_g |-> p, carbs_g |-> c, fat_g |-> f]
IndianDb ==
    (<<"a">> :> Rec(Num(120), PyNone, Num(7), Num(20), Num(1)))
    @@ (<<"a", "a">> :> Rec(PyNone, Num(50), PyNone, Num(10), PyNone))
Tables ==
    {[kind |-> "absent", db |-> <<>>],
     [kind |-> "corrupt", db |-> <<>>],
     [kind |-> "ok", db |-> IndianDb]}

\* the environment of one lookup: which key variable is set, the credentials of
\* the secondary source, and what each source answers
Envs ==
    [key_var : {"none", "CALORIE_NINJAS_KEY", "API_NINJAS_KEY"},
     primary : PrimaryResponses,
     ed_id : BOOLEAN, ed_key : BOOLEAN,
     secondary : SecondaryResponses,
     table : Tables]

\* sum(float(i.get(field, 0) or 0) for i in items)
RECURSIVE SumOf(_, _)
SumOf(items, field) ==
    IF items = <<>> THEN Num(0)
    ELSE FAdd(Or(Head(items)[field], Num(0)), SumOf(Tail(items), field))

\* a lookup outcome: status "found" carries a result, "nothing" is fall-through
\* (or None), "raised" is an exception leaving the function
Nothing ==
    [status |-> "nothing", kcal |-> Num(0), protein_g |-> Num(0), carbs_g |-> Num(0),
     fat_g |-> Num(0), source |-> "none"]
Raised == [Nothing EXCEPT !.status = "raised"]
Found(k, p, c, f, src) ==
    [status |-> "found", kcal |-> k, protein_g |-> p, carbs_g |-> c, fat_g |-> f,
     source |-> src]

\* lines 102-119: the primary source
PrimaryLookup(env) ==
    IF env.key_var = "none" THEN Nothing
    ELSE IF env.primary.kind # "ok" THEN Nothing
    ELSE IF env.primary.items = <<>> THEN Nothing
    ELSE Found(SumOf(env.primary.items, "calories"), SumOf(env.primary.items, "protein_g"),
               SumOf(env.primary.items, "carbohydrates_total_g"), SumOf(env.primary.items, "fat_total_g"),
               "calorieninjas")

\* faulty variant: a transport error at the secondary source is not caught
SecondaryLookupUncaught(env) ==
    IF ~(env.ed_id /\ env.ed_key) THEN Nothing
    ELSE IF env.secondary.kind = "error" THEN Raised
    ELSE IF env.secondary.kind # "ok" THEN Nothing
    ELSE Found(Or(env.secondary.data.calories, Num(0)),
               Or(env.secondary.data.PROCNT, Num(0)),
               Or(env.secondary.data.CHOCDF, Num(0)),
               Or(env.secondary.data.FAT, Num(0)), "edamam")

\* lines 121-137: the secondary source
SecondaryLookup(env) ==
    IF ~(env.ed_id /\ env.ed_key) THEN Nothing
    ELSE IF env.secondary.kind # "ok" THEN Nothing
    ELSE Found(Or(env.secondary.data.calories, Num(0)),
               Or(env.secondary.data.PROCNT, Num(0)),
               Or(env.secondary.data.CHOCDF, Num(0)),
               Or(env.secondary.data.FAT, Num(0)), "edamam")

\* lines 139-155: the local table, keyed by the lowercased text
LocalLookup(text, env) ==
    IF env.table.kind # "ok" THEN Nothing
    ELSE LET key == Lower(text)
         IN IF key \notin DOMAIN env.table.db THEN Nothing
            ELSE LET rec == env.table.db[key]
                 IN Found(IF rec.energy_kcal # PyNone THEN rec.energy_kcal
                          ELSE Or(rec.kcal, Num(0)),
                          Or(rec.protein_g, Num(0)), Or(rec.carbs_g, Num(0)),
                          Or(rec.fat_g, Num(0)), "indian_db")

\* lookup_nutrition_text(text): the outcome and the sources asked, in order
lookup_nutrition_text(text, env) ==
    IF text.t = "none" \/ text.s = <<>> \/ Strip(text.s) = <<>>
    THEN [out |-> Nothing, asked |-> <<>>]
    ELSE LET t == Strip(text.s)
             a1 == IF env.key_var # "none" THEN <<"primary">> ELSE <<>>
             r1 == PrimaryLookup(env)
             a2 == IF env.ed_id /\ env.ed_key THEN a1 \o <<"secondary">> ELSE a1
             r2 == SecondaryLookup(env)
             a3 == IF env.table.kind # "absent" THEN a2 \o <<"local">> ELSE a2
             r3 == LocalLookup(t, env)
         IN IF r1.status # "nothing" THEN [out |-> r1, asked |-> a1]
            ELSE IF r2.status # "nothing" THEN [out |-> r2, asked |-> a2]
            ELSE [out |-> r3, asked |-> a3]

\* meals.lookup_calories_calorieninjas(query); the module reads CALORIE_NINJAS_KEY only
lookup_calories_calorieninjas(query, env) ==
    IF env.key_var # "CALORIE_NINJAS_KEY" THEN Nothing
    ELSE IF env.primary.kind # "ok" THEN Nothing
    ELSE IF env.primary.items = <<>> THEN Nothing
    ELSE LET total_calories == SumOf(env.primary.items, "calories")
         IN IF FLt(Num(0), total_calories)
            THEN Found(total_calories, SumOf(env.primary.items, "protein_g"),
                       SumOf(env.primary.items, "carbohydrates_total_g"), SumOf(env.primary.items, "fat_total_g"),
                       "calorieninjas")
            ELSE Nothing

---------------------------------------------------------------------------
(* Meal flags: compute_flags_for_meal *)

HighCalories == 2000

\* a meal: name is None or a string, calories any Python value
Meals ==
    [name : TextArgs,
     calories : {PyNone, PyStr, Num(0), Num(-5), Num(1), Num(350), Num(HighCalories),
                 Frac(2 * HighCalories + 1, 2), Num(HighCalories + 1), Num(2500)}]

\* lines 160-165: the name and the calories the rules read
MealName(meal) ==
    IF meal.calories = PyStr THEN <<>>     \* float() raised: name = "", calories = 0.0
    ELSE IF meal.name.t = "none" THEN <<>> ELSE Strip(meal.name.s)

MealCalories(meal) ==
    IF meal.calories = PyStr THEN Num(0) ELSE Or(meal.calories, Num(0))

\* faulty variant: 2000 itself counts as unusually high
FlagRulesInclusive(name, calories) ==
    IF name = <<>> THEN [flagged |-> TRUE, reason |-> "Missing meal name"]
    ELSE IF FLe(calories, Num(0))
    THEN [flagged |-> TRUE, reason |-> "Calories missing or zero"]
    ELSE IF FLe(Num(HighCalories), calories)
    THEN [flagged |-> TRUE, reason |-> "Unusually high calories"]
    ELSE [flagged |-> FALSE, reason |-> ""]

\* lines 167-173: the rules, first match wins
FlagRules(name, calories) ==
    IF name = <<>> THEN [flagged |-> TRUE, reason |-> "Missing meal name"]
    ELSE IF FLe(calories, Num(0))
    THEN [flagged |-> TRUE, reason |-> "Calories missing or zero"]
    ELSE IF FLt(Num(HighCalories), calories)
    THEN [flagged |-> TRUE, reason |-> "Unusually high calories"]
    ELSE [flagged |-> FALSE, reason |-> ""]

compute_flags_for_meal(meal) == FlagRules(MealName(meal), MealCalories(meal))

---------------------------------------------------------------------------
(* Lifestyle score: score_range, compute_lifestyle_points *)

\* faulty variant: values at or above high are not cut to 0
score_range_uncut(val, low, mid, high) ==
    IF ~IsNum(val) THEN Num(0)
    ELSE IF FLe(val, low) THEN Num(0)
    ELSE IF val = mid THEN Num(1)
    ELSE IF FLt(val, mid) THEN FDiv(FSub(val, low), FSub(mid, low))
    ELSE FDiv(FSub(high, val), FSub(high, mid))

\* score_range(val, low, mid, high); low, mid, high are numbers
score_range(val, low, mid, high) ==
    IF ~IsNum(val) THEN Num(0)
    ELSE IF FLe(val, low) \/ FLe(high, val) THEN Num(0)
    ELSE IF val = mid THEN Num(1)
    ELSE IF FLt(val, mid) THEN FDiv(FSub(val, low), FSub(mid, low))
    ELSE FDiv(FSub(high, val), FSub(high, mid))

\* round(x, 2): the nearest multiple of 1/100, ties to even
Round2(x) ==
    LET n == x.n * 100
        q == n \div x.d
        r == n - q * x.d
        up == 2 * r > x.d \/ (2 * r = x.d /\ q % 2 = 1)
    IN Frac(IF up THEN q + 1 ELSE q, 100)

\* line 189; the only float() of the function outside a try
BurnScore(calories_burned) ==
    FMin(Num(1), FDiv(Or(calories_burned, Num(0)), Num(400)))

\* lines 192-198
CalRatio(calories_intake, target_calories) ==
    IF ~Truthy(target_calories) THEN Num(1)
    ELSE IF ~IsNum(target_calories) THEN Num(1)          \* str <= 0 raises TypeError
    ELSE IF FLe(target_calories, Num(0)) THEN Num(1)
    ELSE IF ~IsNum(Or(calories_intake, Num(0))) THEN Num(1)   \* str / float raises
    ELSE FDiv(Or(calories_intake, Num(0)), target_calories)

\* lines 189-203; raised is TRUE when float(calories_burned or 0) raises ValueError
compute_lifestyle_points(sig) ==
    IF ~IsNum(Or(sig.calories_burned, Num(0)))
    THEN [raised |-> TRUE, points |-> Num(0)]
    ELSE LET burn_score == BurnScore(sig.calories_burned)
             sleep_score == score_range(Or(sig.sleep_hours, Num(0)),
                                        Num(4), Frac(15, 2), Frac(19, 2))
             meal_interval_score ==
                 score_range(Or(sig.avg_meal_interval_hours, Frac(7, 2)),
                             Frac(1, 2), Frac(7, 2), Num(6))
             cal_ratio == CalRatio(sig.calories_intake, sig.target_calories)
             cal_score == score_range(cal_ratio, Frac(6, 10), Num(1), Frac(13, 10))
             bpm_score == score_range(Or(sig.avg_bpm, Num(60)), Num(40), Num(64), Num(86))
             total == FAdd(FAdd(FAdd(FAdd(FMul(Frac(28, 100), burn_score),
                                          FMul(Frac(25, 100), sleep_score)),
                                     FMul(Frac(18, 100), meal_interval_score)),
                                FMul(Frac(20, 100), cal_score)),
                           FMul(Frac(9, 100), bpm_score))
         IN [raised |-> FALSE, points |-> Round2(FMul(total, Num(100)))]

\* the daily signals drawn
Signals ==
    [calories_burned : {PyNone, PyStr, Num(0), Num(-1000), Num(200), Num(800)},
     sleep_hours : {PyNone, PyStr, Num(-1), Num(6), Frac(15, 2)},
     avg_meal_interval_hours : {PyNone, PyStr, Num(2), Num(7)},
     calories_intake : {PyNone, PyStr, Num(-500), Num(1800), Num(2000)},
     target_calories : {PyNone, PyStr, Num(-100), Num(2000)},
     avg_bpm : {PyNone, PyStr, Num(-10), Num(75)}]

\* the arguments score_range is exercised on: low < mid < high on the grid,
\* val on the half-integer grid around it, or a non-numeric string
Triangles ==
    {t \in [low : 0..MaxGrid, mid : 0..MaxGrid, high : 0..MaxGrid] :
        t.low < t.mid /\ t.mid < t.high}
GridVals == {PyStr} \cup {Frac(i, 2) : i \in -2..(2 * MaxGrid + 2)}

---------------------------------------------------------------------------
(* Actions.  The process serves one call at a time: an operation is entered *)
(* from Idle, runs to completion, and Return hands its outcome back.        *)

Idle == [op |-> "none"]

Threads == 1..NThreads
ThreadIdle == [pc |-> "idle", model |-> PyNone]

Init ==
    /\ model_cache = PyNone
    /\ model_file \in ModelFiles
    /\ load_failed = FALSE
    /\ call = Idle
    /\ threads = [t \in Threads |-> ThreadIdle]
    /\ assigned = <<>>

\* the environment replaces, removes or corrupts the file at MODEL_PATH
WriteModelFile ==
    /\ call = Idle
    /\ \E f \in ModelFiles : f # model_file /\ model_file' = f
    /\ UNCHANGED <<model_cache, load_failed, call, threads, assigned>>

\* a call of compute_daily_targets(user)
Estimate ==
    /\ call = Idle
    /\ \E user \in Users :
        LET r == compute_daily_targets(user, model_cache, model_file)
        IN /\ model_cache' = r.cache
           /\ load_failed' = (load_failed \/ r.failed)
           /\ call' = [op |-> "estimate", user |-> user, target |-> r.target,
                       path |-> r.path, pred |-> r.pred, has_model |-> r.has_model,
                       attempted |-> r.attempted, failed |-> r.failed,
                       cache_before |-> model_cache, failed_before |-> load_failed]
           /\ assigned' = IF r.cache # model_cache THEN Append(assigned, r.cache)
                          ELSE assigned
           /\ UNCHANGED <<model_file, threads>>

\* a call of lookup_nutrition_text(text) in some environment
Lookup ==
    /\ call = Idle
    /\ \E text \in TextArgs, env \in Envs :
        LET r == lookup_nutrition_text(text, env)
        IN /\ call' = [op |-> "lookup", text |-> text, env |-> env, out |-> r.out,
                       asked |-> r.asked]
           /\ UNCHANGED <<model_cache, model_file, load_failed, threads, assigned>>

\* a call of meals.lookup_calories_calorieninjas(query); it asks the primary source only
MealLookup ==
    /\ call = Idle
    /\ \E query \in {TextVal(s) : s \in Texts}, env \in Envs :
        /\ ~env.ed_id /\ ~env.ed_key /\ env.secondary.kind = "error"
        /\ env.table.kind = "absent"
        /\ call' = [op |-> "meal_lookup", text |-> query, env |-> env,
                    out |-> lookup_calories_calorieninjas(query, env)]
        /\ UNCHANGED <<model_cache, model_file, load_failed, threads, assigned>>

\* a call of compute_flags_for_meal(meal)
Flag ==
    /\ call = Idle
    /\ \E meal \in Meals :
        /\ call' = [op |-> "flag", meal |-> meal, out |-> compute_flags_for_meal(meal)]
        /\ UNCHANGED <<model_cache, model_file, load_failed, threads, assigned>>

\* a call of compute_lifestyle_points with the six signals
Score ==
    /\ call = Idle
    /\ \E sig \in Signals :
        LET r == compute_lifestyle_points(sig)
        IN /\ call' = [op |-> "score", sig |-> sig, raised |-> r.raised,
                       points |-> r.points]
           /\ UNCHANGED <<model_cache, model_file, load_failed, threads, assigned>>

\* one evaluation of score_range
ScoreRange ==
    /\ call = Idle
    /\ \E tr \in Triangles, val \in GridVals :
        /\ call' = [op |-> "score_range", val |-> val, low |-> tr.low, mid |-> tr.mid,
                    high |-> tr.high,
                    out |-> score_range(val, Num(tr.low), Num(tr.mid), Num(tr.high))]
        /\ UNCHANGED <<model_cache, model_file, load_failed, threads, assigned>>

\* the call returns to its caller
Return ==
    /\ call # Idle
    /\ call' = Idle
    /\ UNCHANGED <<model_cache, model_file, load_failed, threads, assigned>>

Next ==
    \/ WriteModelFile
    \/ Estimate
    \/ Lookup
    \/ MealLookup
    \/ Flag
    \/ Score
    \/ ScoreRange
    \/ Return

Spec == Init /\ [][Next]_vars

\* the target estimator with its process-wide model cache
NextEstimate == WriteModelFile \/ Estimate \/ Return
SpecEstimate == Init /\ [][NextEstimate]_vars

\* the operations that read no process state, each on its own
InitPure ==
    /\ model_cache = PyNone
    /\ model_file = FileAbsent
    /\ load_failed = FALSE
    /\ call = Idle
    /\ threads = [t \in Threads |-> ThreadIdle]
    /\ assigned = <<>>

NextLookup == Lookup \/ MealLookup \/ Return
SpecLookup == InitPure /\ [][NextLookup]_vars

NextScore == Score \/ ScoreRange \/ Return
SpecScore == InitPure /\ [][NextScore]_vars

NextFlag == Flag \/ Return
SpecFlag == InitPure /\ [][NextFlag]_vars

---------------------------------------------------------------------------
(* A threaded worker: estimates without an override run concurrently, and   *)
(* each is inside load_target_model at the line its thread has reached.     *)
(* The interpreter may switch threads between any two lines.                *)

\* a thread enters load_target_model (compute_daily_targets, line 80 and 26)
T_Call(t) ==
    /\ threads[t].pc = "idle"
    /\ threads' = [threads EXCEPT ![t].pc = "l12"]
    /\ UNCHANGED <<model_cache, model_file, load_failed, call, assigned>>

\* lines 12-13: if _model_cache is not None: return _model_cache
T_Check(t) ==
    /\ threads[t].pc = "l12"
    /\ threads' = [threads EXCEPT ![t] =
                       IF model_cache # PyNone
                       THEN [pc |-> "done", model |-> model_cache]
                       ELSE [pc |-> "l14", model |-> PyNone]]
    /\ UNCHANGED <<model_cache, model_file, load_failed, call, assigned>>

\* lines 14-15: if not os.path.exists(MODEL_PATH): return None
T_Exists(t) ==
    /\ threads[t].pc = "l14"
    /\ threads' = [threads EXCEPT ![t].pc =
                       IF model_file.kind = "absent" THEN "done" ELSE "l17"]
    /\ load_failed' = (load_failed \/ model_file.kind = "absent")
    /\ UNCHANGED <<model_cache, model_file, call, assigned>>

\* lines 16-19 and 22-23: open and unpickle; any exception returns None
T_Load(t) ==
    /\ threads[t].pc = "l17"
    /\ threads' = [threads EXCEPT ![t] =
                       IF model_file.kind = "valid"
                       THEN [pc |-> "l20", model |-> model_file.model]
                       ELSE [pc |-> "done", model |-> PyNone]]
    /\ load_failed' = (load_failed \/ model_file.kind # "valid")
    /\ UNCHANGED <<model_cache, model_file, call, assigned>>

\* lines 20-21: _model_cache = model; return model
T_Assign(t) ==
    /\ threads[t].pc = "l20"
    /\ model_cache' = threads[t].model
    /\ assigned' = Append(assigned, threads[t].model)
    /\ threads' = [threads EXCEPT ![t].pc = "done"]
    /\ UNCHANGED <<model_file, load_failed, call>>

\* load_target_model has returned and the estimate completes
T_Return(t) ==
    /\ threads[t].pc = "done"
    /\ threads' = [threads EXCEPT ![t] = ThreadIdle]
    /\ UNCHANGED <<model_cache, model_file, load_failed, call, assigned>>

NextThreads ==
    \/ WriteModelFile
    \/ \E t \in Threads :
           T_Call(t) \/ T_Check(t) \/ T_Exists(t) \/ T_Load(t) \/ T_Assign(t)
               \/ T_Return(t)
SpecThreads == Init /\ [][NextThreads]_vars

---------------------------------------------------------------------------
(* Properties of the target estimator (SpecEstimate) *)

NoOverride(user) == ~Truthy(user.target_calories)

\* C3 as stated: once a load has failed in the process, no later estimate re-attempts
\* the load and no later estimate uses a model.
C3_FailedLoadIsPermanent ==
    (call.op = "estimate" /\ call.failed_before)
    => ~call.attempted /\ ~call.has_model /\ model_cache = PyNone

\* C3: a failed load (file absent or not deserializable) makes the model unavailable
\* for that call only; the failure is not remembered: while the cache is empty every
\* later estimate without an override consults the file again, and it loads, caches
\* and uses the model as soon as the file holds one.
C3_FailedLoadIsRetried ==
    call.op = "estimate" =>
        /\ call.failed => call.path = "formula" /\ ~call.has_model /\ model_cache = PyNone
        /\ (call.failed_before /\ NoOverride(call.user) /\ call.cache_before = PyNone)
               => /\ call.attempted
                  /\ call.failed = (model_file.kind # "valid")
                  /\ model_file.kind = "valid"
                         => call.has_model /\ model_cache = model_file.model

\* C3 witness: after a failed load a later estimate loads the model and returns its
\* prediction
C3_Witness ==
    /\ call.op = "estimate"
    /\ call.failed_before /\ call.cache_before = PyNone
    /\ call.attempted /\ call.path = "model"
    /\ model_cache = ModelLinear

\* C4: a truthy target_calories is returned exactly, unclamped, whatever the model
\* and the formula would give.
C4_OverrideVerbatim ==
    (call.op = "estimate" /\ Truthy(call.user.target_calories))
    => /\ call.target = call.user.target_calories
       /\ call.path = "override"
       /\ model_cache = call.cache_before

\* C4 witness: the override 9999 is returned with a model loaded in the process
C4_Witness ==
    /\ call.op = "estimate"
    /\ call.user.target_calories = Num(9999)
    /\ call.target = Num(9999)
    /\ model_cache = ModelLinear

\* C5 as stated: without an override, with a model whose prediction succeeds, the
\* predicted value is returned verbatim for every predicted value.
C5_EveryPredictionVerbatim ==
    (/\ call.op = "estimate"
     /\ NoOverride(call.user)
     /\ call.has_model /\ call.pred # PyNone)
    => call.path = "model" /\ call.target = call.pred

\* C5: without an override, with a model whose prediction succeeds and is not 0, the
\* predicted value is returned verbatim (unclamped) and the formula path is not taken.
C5_NonZeroPredictionVerbatim ==
    (/\ call.op = "estimate"
     /\ NoOverride(call.user)
     /\ call.has_model /\ call.pred # PyNone /\ call.pred # Num(0))
    => call.path = "model" /\ call.target = call.pred

\* C5 witness: a prediction above 4500 is returned as it is
C5_Witness ==
    /\ call.op = "estimate"
    /\ call.path = "model"
    /\ call.target = Num(5400)

\* the formula of the claim, written out over the profile; explicit(m) says when the
\* profile's own multiplier counts as present
ClaimedFormula(user, explicit(_)) ==
    LET weight == IF Truthy(user.weight_kg) THEN user.weight_kg ELSE Num(70)
        height == IF Truthy(user.height_cm) THEN user.height_cm ELSE Num(170)
        age == IF user.birth_date = PyNone THEN 30 ELSE ThisYear - user.birth_date.n
        \* 4 * BMR, 1000 * multiplier: the result is in units of 1/4000 kcal
        bmr4 == 40 * weight.n + 25 * height.n - 20 * age
                    + (IF user.sex = "male" THEN 20 ELSE -644)
        floored4 == IF bmr4 < 4 * 800 THEN 4 * 800 ELSE bmr4
        level1000 == CASE user.activity_level = "light" -> 1375
                       [] user.activity_level = "moderate" -> 1550
                       [] user.activity_level = "active" -> 1725
                       [] user.activity_level = "very_active" -> 1900
                       [] OTHER -> 1200
        mult1000 == IF explicit(user.activity_multiplier)
                    THEN (1000 * user.activity_multiplier.n) \div user.activity_multiplier.d
                    ELSE level1000
        goal4000 == CASE user.goal = "lose" -> -300 * 4000
                      [] user.goal = "gain" -> 300 * 4000
                      [] OTHER -> 0
        t == floored4 * mult1000 + goal4000
        clamped == IF t < 1000 * 4000 THEN 1000 * 4000
                   ELSE IF t > 4500 * 4000 THEN 4500 * 4000 ELSE t
    IN Frac(clamped, 4000)

Present(m) == m # PyNone
PresentNonZero(m) == m # PyNone /\ m # Num(0)

\* C6 as stated: on the formula path the result is
\* clamp(max(800, BMR) * multiplier + goal adjustment, 1000, 4500), the multiplier
\* being the profile's explicit multiplier whenever one is present.
C6_FormulaWithAnyExplicitMultiplier ==
    (call.op = "estimate" /\ call.path = "formula")
    => call.target = ClaimedFormula(call.user, Present)

\* C6: on the formula path the result is
\* clamp(max(800, BMR) * multiplier + goal adjustment, 1000, 4500), with the
\* Mifflin-St Jeor BMR (+5 male, -161 otherwise), the profile's explicit multiplier
\* when it is present and not 0 and the activity-level mapping otherwise (1.2 for an
\* unrecognized level), and -300 / +300 / 0 for lose / gain / maintain; the result is
\* within [1000, 4500].
C6_FormulaPath ==
    (call.op = "estimate" /\ call.path = "formula")
    => /\ call.target = ClaimedFormula(call.user, PresentNonZero)
       /\ FLe(Num(1000), call.target) /\ FLe(call.target, Num(4500))

\* C6 witness: the BMR floor of 800 decides a formula result inside the clamp range
\* (800 * 1.9 - 300 = 1220)
C6_Witness ==
    /\ call.op = "estimate" /\ call.path = "formula"
    /\ call.user.sex = "female" /\ call.user.weight_kg = Num(20)
    /\ call.user.birth_date = Num(1936)
    /\ call.user.activity_multiplier = PyNone
    /\ call.user.activity_level = "very_active" /\ call.user.goal = "lose"
    /\ call.target = Num(1220)

---------------------------------------------------------------------------
(* Properties of the nutrition lookup (SpecLookup) *)

NonBlank(text) == text.t = "text" /\ \E i \in DOMAIN text.s : text.s[i] # " "

\* the primary source answered 200 with one or more items
PrimaryAnswered(env) ==
    env.key_var # "none" /\ env.primary.kind = "ok" /\ env.primary.items # <<>>

\* no key, a transport error or a non-success status at the source
PrimaryDown(env) == env.key_var = "none" \/ env.primary.kind \in {"error", "http_error"}
SecondaryDown(env) ==
    ~(env.ed_id /\ env.ed_key) \/ env.secondary.kind \in {"error", "http_error"}
SecondaryAnswered(env) == env.ed_id /\ env.ed_key /\ env.secondary.kind = "ok"

\* C1: when the primary source answers with items whose calories sum to 0, lookup
\* returns no zero-calorie result of the primary source: the primary outcome counts
\* as absent and the secondary source, when it answers, provides the result.
C1_ZeroCaloriePrimarySkipped ==
    (/\ call.op = "lookup"
     /\ NonBlank(call.text)
     /\ PrimaryAnswered(call.env)
     /\ SumOf(call.env.primary.items, "calories") = Num(0))
    => /\ ~(call.out.status = "found" /\ call.out.source = "calorieninjas")
       /\ SecondaryAnswered(call.env) => call.out.source = "edamam"

\* C8: a transport error, a non-success status or a missing key at a network source
\* never aborts lookup; the next source in the order primary, secondary, local table
\* is tried, the local table gives the result only when neither network source
\* produced one, and lookup returns absent when every source is exhausted.
C8_SilentFallthrough ==
    call.op = "lookup" =>
        LET env == call.env
            key == Lower(Strip(call.text.s))
            hit == env.table.kind = "ok" /\ key \in DOMAIN env.table.db
        IN /\ call.out.status # "raised"
           /\ \A i, j \in DOMAIN call.asked :
                  /\ call.asked[i] = "primary" => i = 1
                  /\ (call.asked[i] = "local" /\ i # j) => j < i
           /\ call.out.source = "indian_db"
                  => ~PrimaryAnswered(env) /\ ~SecondaryAnswered(env)
           /\ NonBlank(call.text) =>
                  /\ (PrimaryDown(env) /\ SecondaryAnswered(env))
                         => call.out.status = "found" /\ call.out.source = "edamam"
                  /\ (PrimaryDown(env) /\ SecondaryDown(env) /\ hit)
                         => call.out.status = "found" /\ call.out.source = "indian_db"
                  /\ (PrimaryDown(env) /\ SecondaryDown(env) /\ ~hit)
                         => call.out.status = "nothing"

\* C8 witness: both network sources fail and the local table answers
C8_Witness ==
    /\ call.op = "lookup"
    /\ call.env.key_var # "none" /\ call.env.primary.kind = "error"
    /\ call.env.ed_id /\ call.env.ed_key /\ call.env.secondary.kind = "http_error"
    /\ call.asked = <<"primary", "secondary", "local">>
    /\ call.out.status = "found" /\ call.out.source = "indian_db"

---------------------------------------------------------------------------
(* Properties of the lifestyle score (SpecScore) *)

NotStr(x) == x.t # "str"

\* C2: for absent, zero, negative or any numeric signals the score is in [0, 100].
C2_ScoreWithinRange ==
    (/\ call.op = "score"
     /\ \A f \in DOMAIN call.sig : NotStr(call.sig[f]))
    => /\ ~call.raised
       /\ FLe(Num(0), call.points) /\ FLe(call.points, Num(100))

\* C7: no core operation raises to its caller; missing or non-numeric signal values
\* given to the score are defaulted.
C7_NoOperationRaises ==
    /\ call.op = "score" => ~call.raised
    /\ call.op \in {"lookup", "meal_lookup"} => call.out.status # "raised"

\* C10: for low < mid < high, score_range is 0 at low and at high, 1 at mid,
\* non-decreasing on [low, mid], non-increasing on [mid, high], and within [0, 1].
C10_ScoreRangeShape ==
    (call.op = "score_range" /\ IsNum(call.val)) =>
        LET low == Num(call.low)
            mid == Num(call.mid)
            high == Num(call.high)
        IN /\ FLe(Num(0), call.out) /\ FLe(call.out, Num(1))
           /\ call.val = low => call.out = Num(0)
           /\ call.val = high => call.out = Num(0)
           /\ call.val = mid => call.out = Num(1)
           /\ \A w \in GridVals :
                  (IsNum(w) /\ FLe(call.val, w)) =>
                      /\ (FLe(low, call.val) /\ FLe(w, mid))
                             => FLe(call.out, score_range(w, low, mid, high))
                      /\ (FLe(mid, call.val) /\ FLe(w, high))
                             => FLe(score_range(w, low, mid, high), call.out)

\* C10 witness: a value strictly inside a ramp scores strictly between 0 and 1
C10_Witness ==
    /\ call.op = "score_range" /\ IsNum(call.val)
    /\ FLt(Num(call.mid), call.val) /\ FLt(call.val, Num(call.high))
    /\ FLt(Num(0), call.out) /\ FLt(call.out, Num(1))

---------------------------------------------------------------------------
(* Properties of the meal flags (SpecFlag) *)

Blank(s) == \A i \in DOMAIN s : s[i] = " "

\* C9: the rules apply in order, first match wins: an empty or whitespace-only name
\* gives (True, "Missing meal name") whatever the calories; otherwise calories <= 0
\* gives (True, "Calories missing or zero"); otherwise calories > 2000 gives
\* (True, "Unusually high calories"); otherwise (False, ""); 2000 is not flagged.
C9_FlagRulesInOrder ==
    (call.op = "flag" /\ call.meal.name.t = "text" /\ IsNum(call.meal.calories)) =>
        LET c == call.meal.calories
        IN call.out =
               IF Blank(call.meal.name.s)
               THEN [flagged |-> TRUE, reason |-> "Missing meal name"]
               ELSE IF c.n <= 0
               THEN [flagged |-> TRUE, reason |-> "Calories missing or zero"]
               ELSE IF c.n > 2000 * c.d
               THEN [flagged |-> TRUE, reason |-> "Unusually high calories"]
               ELSE [flagged |-> FALSE, reason |-> ""]

\* C9 witness: a named meal of exactly 2000 calories is not flagged
C9_Witness ==
    /\ call.op = "flag"
    /\ ~Blank(call.meal.name.s)
    /\ call.meal.calories = Num(2000)
    /\ call.out = [flagged |-> FALSE, reason |-> ""]

---------------------------------------------------------------------------
(* Properties of the model cache under concurrent estimates (SpecThreads) *)

\* C11: the model cache is single-assignment: once _model_cache holds a loaded
\* model it is never assigned again, under any interleaving of concurrent estimates,
\* so every thread that reads a loaded cache gets the first object assigned.
C11_CacheAssignedOnce ==
    /\ Len(assigned) <= 1
    /\ \A t \in Threads :
           (threads[t].pc = "done" /\ threads[t].model # PyNone)
               => threads[t].model = assigned[1]

====
